---- MODULE Spec2Model ----
(***************************************************************************)
(* Incarceration-period normalisation                                      *)
(* (recidiviz/calculator/pipeline/utils/incarceration_period_utils.py).    *)
(*                                                                         *)
(* A StateIncarcerationPeriod is a record; a date is a day number, with    *)
(* NullDate standing for Python's None; an unset enum or string field is   *)
(* the string "None".  Lists are sequences.                                *)
(***************************************************************************)
EXTENDS Integers, Sequences, FiniteSets, TLC

VARIABLES
    pc,      \* the step to run next
    input,   \* the list as the caller passed it
    objs,    \* the caller's objects as they are now
    ips,     \* the list the engine is working on; the result once done
    params,  \* jurisdiction code and collapse flags of the call
    result,  \* the result of the step that follows the call
    raised   \* whether the call ended in an exception

vars == <<pc, input, objs, ips, params, result, raised>>

----------------------------------------------------------------------------
(* Bounds of the model.                                                    *)

\* Days are 1..MaxDate; the processing date (date.today()) is Today.
MaxDate == 3

\* Longest list handed to the full pipeline.
MaxLen == 3

\* Longest list handed to the collapse functions on their own.
MaxChain == 3

----------------------------------------------------------------------------
(* Values.                                                                 *)

NullDate == 0

None == "None"

Dates == 1..MaxDate

\* date.today(): the last day but one, so that MaxDate lies in the future.
Today == MaxDate - 1

OptDates == {NullDate} \cup Dates

IN_CUSTODY == "IN_CUSTODY"

NOT_IN_CUSTODY == "NOT_IN_CUSTODY"

Statuses == {IN_CUSTODY, NOT_IN_CUSTODY}

STATE_PRISON == "STATE_PRISON"

COUNTY_JAIL == "COUNTY_JAIL"

Revocations == {"DUAL_REVOCATION", "PAROLE_REVOCATION", "PROBATION_REVOCATION"}

Period(id, type, status, ad, ar, rd, rr, raw, fac) ==
    [external_id |-> id, incarceration_type |-> type, status |-> status,
     admission_date |-> ad, admission_reason |-> ar,
     release_date |-> rd, release_reason |-> rr,
     release_reason_raw_text |-> raw, facility |-> fac,
     admission_reason_raw_text |-> None, housing_unit |-> None,
     facility_security_level |-> None,
     facility_security_level_raw_text |-> None,
     projected_release_reason |-> None,
     projected_release_reason_raw_text |-> None,
     ref |-> 0, members |-> <<>>]

\* Two bookkeeping fields are not fields of the program's class.  `ref` is
\* the object's identity: the position in the caller's list of the object
\* this is, 0 for an object the engine made itself (deepcopy).  `members`
\* is the history of a combined period: the identity and admission date of
\* each period it was combined from, in order.
\* Plain(p) is the period by the fields the program has.
Plain(p) == [p EXCEPT !.members = <<>>, !.ref = 0]

PlainList(l) == [i \in 1..Len(l) |-> Plain(l[i])]

----------------------------------------------------------------------------
(* _sort_ips_by_set_dates_and_statuses: the comparator.                    *)
(* Each helper comes as a pair: XRaises(a, b) says that the Python         *)
(* function raises ValueError, X(a, b) is its return value otherwise.      *)

_sort_by_external_idRaises(a, b) ==
    a.external_id = None \/ b.external_id = None

\* Alphabetic order of the identifiers used in the model.
IdRank(id) ==
    CASE id = "a" -> 1
      [] id = "b" -> 2
      [] id = "c" -> 3
      [] OTHER -> 4

_sort_by_external_id(a, b) ==
    IF IdRank(a.external_id) < IdRank(b.external_id) THEN -1 ELSE 1

_sort_by_nonnull_release_datesRaises(a, b) ==
    \/ a.release_date = NullDate
    \/ b.release_date = NullDate
    \/ (a.release_date = b.release_date /\ _sort_by_external_idRaises(a, b))

_sort_by_nonnull_release_dates(a, b) ==
    IF a.release_date # b.release_date
    THEN a.release_date - b.release_date
    ELSE _sort_by_external_id(a, b)

_sort_by_custody_statusRaises(a, b) ==
    (a.status = IN_CUSTODY) = (b.status = IN_CUSTODY)
        /\ _sort_by_external_idRaises(a, b)

\* Custody status left out: the identifiers decide.
_sort_by_custody_status_by_id(a, b) == _sort_by_external_id(a, b)

_sort_by_custody_status(a, b) ==
    LET normalized_status_a ==
            IF a.status = IN_CUSTODY THEN IN_CUSTODY ELSE NOT_IN_CUSTODY
        normalized_status_b ==
            IF b.status = IN_CUSTODY THEN IN_CUSTODY ELSE NOT_IN_CUSTODY
    IN  IF normalized_status_a = normalized_status_b
        THEN _sort_by_external_id(a, b)
        ELSE IF normalized_status_a = IN_CUSTODY THEN 1 ELSE -1

_sort_equal_admission_dateRaises(a, b) ==
    IF a.admission_date # b.admission_date THEN TRUE
    ELSE IF a.release_date # NullDate /\ b.release_date # NullDate
         THEN _sort_by_nonnull_release_datesRaises(a, b)
    ELSE IF a.admission_date = NullDate \/ b.admission_date = NullDate
         THEN TRUE
    ELSE IF a.release_date = NullDate /\ b.release_date = NullDate
         THEN _sort_by_custody_statusRaises(a, b)
    ELSE FALSE

\* The period without a release date first, however long the other stay.
_sort_equal_admission_date_unset_first(a, b) ==
    IF a.release_date # NullDate /\ b.release_date # NullDate
    THEN _sort_by_nonnull_release_dates(a, b)
    ELSE IF a.release_date = NullDate /\ b.release_date = NullDate
    THEN _sort_by_custody_status(a, b)
    ELSE IF a.release_date # NullDate THEN 1 ELSE -1

_sort_equal_admission_date(a, b) ==
    IF a.release_date # NullDate /\ b.release_date # NullDate
    THEN _sort_by_nonnull_release_dates(a, b)
    ELSE IF a.release_date = NullDate /\ b.release_date = NullDate
    THEN _sort_by_custody_status(a, b)
    ELSE IF a.release_date # NullDate
    THEN (IF a.release_date - a.admission_date # 0 THEN 1 ELSE -1)
    ELSE (IF b.release_date - b.admission_date # 0 THEN -1 ELSE 1)

\* date_a / date_b of _sort_function
AnchorDate(p) ==
    IF p.admission_date # NullDate THEN p.admission_date ELSE p.release_date

_sort_functionRaises(a, b) ==
    IF a.admission_date = b.admission_date
    THEN _sort_equal_admission_dateRaises(a, b)
    ELSE \/ AnchorDate(a) = NullDate
         \/ AnchorDate(b) = NullDate
         \/ /\ AnchorDate(a) = AnchorDate(b)
            /\ a.release_date # NullDate /\ b.release_date # NullDate
            /\ _sort_by_external_idRaises(a, b)

_sort_function(a, b) ==
    IF a.admission_date = b.admission_date
    THEN _sort_equal_admission_date(a, b)
    ELSE IF AnchorDate(a) = AnchorDate(b)
         THEN IF a.release_date # NullDate /\ b.release_date # NullDate
              THEN _sort_by_external_id(a, b)
              ELSE (IF a.admission_date # NullDate THEN -1 ELSE 1)
         ELSE AnchorDate(a) - AnchorDate(b)

----------------------------------------------------------------------------
(* list.sort as CPython runs it on a list of fewer than 64 elements: the   *)
(* leading run is found (count_run) and reversed if it descends, and the   *)
(* remaining elements are placed by binary insertion (binarysort).  Only   *)
(* "less than" on the sort keys is ever asked.  `mode` names the key:      *)
(* "cmp" is cmp_to_key(_sort_function), "release" is the key               *)
(* (release_date is None, release_date), "admission" is admission_date.    *)
(* A sort yields [l |-> the list, err |-> whether a comparison raised].    *)

LtRaises(mode, a, b) ==
    CASE mode = "cmp" -> _sort_functionRaises(a, b)
      [] mode = "release" -> FALSE
      [] OTHER -> a.admission_date = NullDate \/ b.admission_date = NullDate

Lt(mode, a, b) ==
    CASE mode = "cmp" -> _sort_function(a, b) < 0
      [] mode = "release" ->
            IF (a.release_date = NullDate) # (b.release_date = NullDate)
            THEN b.release_date = NullDate
            ELSE a.release_date < b.release_date
      [] OTHER -> a.admission_date < b.admission_date

RECURSIVE RunExtend(_, _, _, _)
RunExtend(l, mode, descending, i) ==
    IF i > Len(l) THEN [n |-> i - 1, descending |-> descending, err |-> FALSE]
    ELSE IF LtRaises(mode, l[i], l[i - 1])
         THEN [n |-> i - 1, descending |-> descending, err |-> TRUE]
    ELSE IF Lt(mode, l[i], l[i - 1]) = descending
         THEN RunExtend(l, mode, descending, i + 1)
    ELSE [n |-> i - 1, descending |-> descending, err |-> FALSE]

count_run(l, mode) ==
    IF LtRaises(mode, l[2], l[1])
    THEN [n |-> 2, descending |-> FALSE, err |-> TRUE]
    ELSE RunExtend(l, mode, Lt(mode, l[2], l[1]), 3)

reverse_slice(l, n) ==
    [i \in 1..Len(l) |-> IF i <= n THEN l[n + 1 - i] ELSE l[i]]

\* The do-while of binarysort: the insertion point of pivot in l[lo..hi-1].
RECURSIVE BinarySearch(_, _, _, _, _)
BinarySearch(l, mode, pivot, lo, hi) ==
    LET p == lo + ((hi - lo) \div 2) IN
    IF LtRaises(mode, pivot, l[p]) THEN [pos |-> lo, err |-> TRUE]
    ELSE LET lo2 == IF Lt(mode, pivot, l[p]) THEN lo ELSE p + 1
             hi2 == IF Lt(mode, pivot, l[p]) THEN p ELSE hi
         IN  IF lo2 < hi2 THEN BinarySearch(l, mode, pivot, lo2, hi2)
             ELSE [pos |-> lo2, err |-> FALSE]

RECURSIVE binarysort(_, _, _)
binarysort(l, mode, start) ==
    IF start > Len(l) THEN [l |-> l, err |-> FALSE]
    ELSE LET found == BinarySearch(l, mode, l[start], 1, start) IN
         IF found.err THEN [l |-> l, err |-> TRUE]
         ELSE binarysort(SubSeq(l, 1, found.pos - 1) \o <<l[start]>>
                             \o SubSeq(l, found.pos, start - 1)
                             \o SubSeq(l, start + 1, Len(l)),
                         mode, start + 1)

listsort(l, mode) ==
    IF Len(l) < 2 THEN [l |-> l, err |-> FALSE]
    ELSE LET run == count_run(l, mode) IN
         IF run.err THEN [l |-> l, err |-> TRUE]
         ELSE binarysort(IF run.descending THEN reverse_slice(l, run.n) ELSE l,
                         mode, run.n + 1)

_sort_ips_by_set_dates_and_statuses(l) == listsort(l, "cmp")

----------------------------------------------------------------------------
(* Validation, inference, the authority filter.                            *)

\* entity_utils.is_placeholder is not part of the sources at hand; a
\* period lacking its identity is a placeholder.
is_placeholder(ip) == ip.external_id = None

drop_placeholder_periods(l) == SelectSeq(l, LAMBDA ip : ~is_placeholder(ip))

\* validate_admission_data without its check of the admission reason.
AdmissionValidDateOnly(ip) ==
    /\ ~is_placeholder(ip)
    /\ ip.admission_date # NullDate

AdmissionValid(ip) ==
    /\ ~is_placeholder(ip)
    /\ ip.admission_date # NullDate
    /\ ip.admission_reason # None

validate_admission_data(l) == SelectSeq(l, AdmissionValid)

\* validate_release_data clearing a release of the processing date as well.
ReleaseUpdatedFromToday(ip) ==
    LET defaulted ==
            IF ip.release_reason = None /\ ip.status # IN_CUSTODY
            THEN [ip EXCEPT !.release_reason = "INTERNAL_UNKNOWN"]
            ELSE ip
    IN  IF defaulted.release_date # NullDate /\ defaulted.release_date >= Today
        THEN [defaulted EXCEPT !.release_date = NullDate,
                               !.release_reason = None,
                               !.status = IN_CUSTODY]
        ELSE defaulted

\* The period as validate_release_data leaves it (lines 94-100, 112-119).
ReleaseUpdated(ip) ==
    LET defaulted ==
            IF ip.release_reason = None /\ ip.status # IN_CUSTODY
            THEN [ip EXCEPT !.release_reason = "INTERNAL_UNKNOWN"]
            ELSE ip
    IN  IF defaulted.release_date # NullDate /\ defaulted.release_date > Today
        THEN [defaulted EXCEPT !.release_date = NullDate,
                               !.release_reason = None,
                               !.status = IN_CUSTODY]
        ELSE defaulted

\* Whether validate_release_data keeps the period (lines 87-93, 102-111).
ReleaseKept(ip) ==
    /\ ~(ip.release_date = NullDate /\ ip.status # IN_CUSTODY)
    /\ ~(/\ ip.release_date = NullDate
         /\ \/ ip.release_reason # None
            \/ ip.release_reason_raw_text # None)

validate_release_data(l) ==
    LET kept == SelectSeq(l, ReleaseKept)
    IN  [i \in 1..Len(kept) |-> ReleaseUpdated(kept[i])]

\* Lines 390-412: the release side of one loop iteration.
\* The release side taking the next period's release date before its
\* admission date.
InferReleaseFromNextRelease(l, index) ==
    LET ip == l[index] IN
    IF ip.release_date # NullDate THEN ip
    ELSE IF index = Len(l)
         THEN IF ip.status # IN_CUSTODY
              THEN [ip EXCEPT !.release_date = ip.admission_date,
                              !.release_reason = "INTERNAL_UNKNOWN"]
              ELSE ip
    ELSE LET next_ip == l[index + 1] IN
         [ip EXCEPT
            !.release_date = IF next_ip.release_date # NullDate
                             THEN next_ip.release_date
                             ELSE next_ip.admission_date,
            !.release_reason = IF ip.release_reason # None
                               THEN ip.release_reason
                               ELSE IF next_ip.admission_reason = "TRANSFER"
                               THEN "TRANSFER"
                               ELSE "INTERNAL_UNKNOWN",
            !.status = NOT_IN_CUSTODY]

InferRelease(l, index) ==
    LET ip == l[index] IN
    IF ip.release_date # NullDate THEN ip
    ELSE IF index = Len(l)
         THEN IF ip.status # IN_CUSTODY
              THEN [ip EXCEPT !.release_date = ip.admission_date,
                              !.release_reason = "INTERNAL_UNKNOWN"]
              ELSE ip
    ELSE LET next_ip == l[index + 1] IN
         [ip EXCEPT
            !.release_date = IF next_ip.admission_date # NullDate
                             THEN next_ip.admission_date
                             ELSE next_ip.release_date,
            !.release_reason = IF ip.release_reason # None
                               THEN ip.release_reason
                               ELSE IF next_ip.admission_reason = "TRANSFER"
                               THEN "TRANSFER"
                               ELSE "INTERNAL_UNKNOWN",
            !.status = NOT_IN_CUSTODY]

\* The admission side copying the date alone into a first period.
InferAdmissionDateOnly(l, index, ip) ==
    IF ip.admission_date # NullDate THEN ip
    ELSE IF index = 1
         THEN [ip EXCEPT !.admission_date = ip.release_date]
    ELSE LET previous_ip == l[index - 1] IN
         [ip EXCEPT
            !.admission_date = IF previous_ip.release_date # NullDate
                               THEN previous_ip.release_date
                               ELSE ip.admission_date,
            !.admission_reason = IF ip.admission_reason # None
                                 THEN ip.admission_reason
                                 ELSE IF previous_ip.release_reason = "TRANSFER"
                                 THEN "TRANSFER"
                                 ELSE "INTERNAL_UNKNOWN"]

\* Lines 414-432: the admission side, on the period as the release side
\* left it; l[index - 1] has been through its own iteration already.
InferAdmission(l, index, ip) ==
    IF ip.admission_date # NullDate THEN ip
    ELSE IF index = 1
         THEN [ip EXCEPT !.admission_date = ip.release_date,
                         !.admission_reason = "INTERNAL_UNKNOWN"]
    ELSE LET previous_ip == l[index - 1] IN
         [ip EXCEPT
            !.admission_date = IF previous_ip.release_date # NullDate
                               THEN previous_ip.release_date
                               ELSE ip.admission_date,
            !.admission_reason = IF ip.admission_reason # None
                                 THEN ip.admission_reason
                                 ELSE IF previous_ip.release_reason = "TRANSFER"
                                 THEN "TRANSFER"
                                 ELSE "INTERNAL_UNKNOWN"]

RECURSIVE InferLoop(_, _)
InferLoop(l, index) ==
    IF index > Len(l) THEN l
    ELSE InferLoop([l EXCEPT ![index] =
                        InferAdmission(l, index, InferRelease(l, index))],
                   index + 1)

\* Every period inferred from its neighbours as they were given.
_infer_from_given_periods(l) ==
    LET sorted == _sort_ips_by_set_dates_and_statuses(l) IN
    IF sorted.err THEN sorted
    ELSE [l |-> [index \in 1..Len(sorted.l) |->
                    InferAdmission(sorted.l, index, InferRelease(sorted.l, index))],
          err |-> FALSE]

_infer_missing_dates_and_statuses(l) ==
    LET sorted == _sort_ips_by_set_dates_and_statuses(l) IN
    IF sorted.err THEN sorted
    ELSE [l |-> InferLoop(sorted.l, 1), err |-> FALSE]

\* state_calculation_config_manager is not part of the sources at hand: the
\* two policies are a table keyed by the jurisdiction code.
StateCodes == {"US_MO", "US_ND"}

temporary_custody_periods_under_state_authority(state_code) ==
    state_code = "US_MO"

non_prison_periods_under_state_authority(state_code) ==
    state_code = "US_ND"

drop_temporary_custody_periods(l) ==
    SelectSeq(l, LAMBDA ip : ip.admission_reason # "TEMPORARY_CUSTODY")

_drop_non_prison_periods(l) ==
    SelectSeq(l, LAMBDA ip : ip.incarceration_type = STATE_PRISON)

drop_periods_not_under_state_custodial_authority(l, state_code) ==
    LET filtered ==
            IF ~temporary_custody_periods_under_state_authority(state_code)
            THEN drop_temporary_custody_periods(l)
            ELSE l
    IN  IF ~non_prison_periods_under_state_authority(state_code)
        THEN _drop_non_prison_periods(filtered)
        ELSE filtered

----------------------------------------------------------------------------
(* Collapsing.                                                             *)

Members(p) ==
    IF p.members = <<>>
    THEN <<[external_id |-> p.external_id, admission_date |-> p.admission_date]>>
    ELSE p.members

\* A combination that keeps the release date of |start|.
combine_keeping_start_release(start, end, overwrite_admission_reason) ==
    [external_id |-> start.external_id,
     incarceration_type |-> start.incarceration_type,
     admission_date |-> start.admission_date,
     admission_reason |-> IF overwrite_admission_reason
                          THEN end.admission_reason
                          ELSE start.admission_reason,
     admission_reason_raw_text |-> IF overwrite_admission_reason
                                   THEN end.admission_reason_raw_text
                                   ELSE start.admission_reason_raw_text,
     status |-> end.status,
     release_date |-> start.release_date,
     facility |-> end.facility,
     housing_unit |-> end.housing_unit,
     facility_security_level |-> end.facility_security_level,
     facility_security_level_raw_text |-> end.facility_security_level_raw_text,
     projected_release_reason |-> end.projected_release_reason,
     projected_release_reason_raw_text |-> end.projected_release_reason_raw_text,
     release_reason |-> end.release_reason,
     release_reason_raw_text |-> end.release_reason_raw_text,
     ref |-> 0,
     members |-> Members(start) \o Members(end)]

\* A combination made on a copy of |end| instead of |start|.
combine_on_copy_of_end(start, end, overwrite_admission_reason) ==
    [external_id |-> end.external_id,
     incarceration_type |-> end.incarceration_type,
     admission_date |-> start.admission_date,
     admission_reason |-> IF overwrite_admission_reason
                          THEN end.admission_reason
                          ELSE start.admission_reason,
     admission_reason_raw_text |-> IF overwrite_admission_reason
                                   THEN end.admission_reason_raw_text
                                   ELSE start.admission_reason_raw_text,
     status |-> end.status,
     release_date |-> end.release_date,
     facility |-> end.facility,
     housing_unit |-> end.housing_unit,
     facility_security_level |-> end.facility_security_level,
     facility_security_level_raw_text |-> end.facility_security_level_raw_text,
     projected_release_reason |-> end.projected_release_reason,
     projected_release_reason_raw_text |-> end.projected_release_reason_raw_text,
     release_reason |-> end.release_reason,
     release_reason_raw_text |-> end.release_reason_raw_text,
     ref |-> 0,
     members |-> Members(start) \o Members(end)]

\* A combination written into |start| itself: no deepcopy.
combine_into_start(start, end, overwrite_admission_reason) ==
    [start EXCEPT
        !.admission_reason = IF overwrite_admission_reason
                             THEN end.admission_reason
                             ELSE start.admission_reason,
        !.admission_reason_raw_text = IF overwrite_admission_reason
                                      THEN end.admission_reason_raw_text
                                      ELSE start.admission_reason_raw_text,
        !.status = end.status,
        !.release_date = end.release_date,
        !.facility = end.facility,
        !.housing_unit = end.housing_unit,
        !.facility_security_level = end.facility_security_level,
        !.facility_security_level_raw_text = end.facility_security_level_raw_text,
        !.projected_release_reason = end.projected_release_reason,
        !.projected_release_reason_raw_text = end.projected_release_reason_raw_text,
        !.release_reason = end.release_reason,
        !.release_reason_raw_text = end.release_reason_raw_text,
        !.members = Members(start) \o Members(end)]

combine_incarceration_periods(start, end, overwrite_admission_reason) ==
    [external_id |-> start.external_id,
     incarceration_type |-> start.incarceration_type,
     admission_date |-> start.admission_date,
     admission_reason |-> IF overwrite_admission_reason
                          THEN end.admission_reason
                          ELSE start.admission_reason,
     admission_reason_raw_text |-> IF overwrite_admission_reason
                                   THEN end.admission_reason_raw_text
                                   ELSE start.admission_reason_raw_text,
     status |-> end.status,
     release_date |-> end.release_date,
     facility |-> end.facility,
     housing_unit |-> end.housing_unit,
     facility_security_level |-> end.facility_security_level,
     facility_security_level_raw_text |-> end.facility_security_level_raw_text,
     projected_release_reason |-> end.projected_release_reason,
     projected_release_reason_raw_text |-> end.projected_release_reason_raw_text,
     release_reason |-> end.release_reason,
     release_reason_raw_text |-> end.release_reason_raw_text,
     ref |-> 0,
     members |-> Members(start) \o Members(end)]

\* The loop with a flag that, once set, stays set.
RECURSIVE TransferLoopKeepingFlag(_, _, _, _)
TransferLoopKeepingFlag(l, i, new_incarceration_periods, open_transfer) ==
    IF i > Len(l) THEN new_incarceration_periods
    ELSE LET incarceration_period == l[i]
             n == Len(new_incarceration_periods)
             appended ==
                IF open_transfer /\ incarceration_period.admission_reason = "TRANSFER"
                THEN SubSeq(new_incarceration_periods, 1, n - 1)
                        \o <<combine_incarceration_periods(
                                new_incarceration_periods[n],
                                incarceration_period, FALSE)>>
                ELSE Append(new_incarceration_periods, incarceration_period)
         IN  TransferLoopKeepingFlag(l, i + 1, appended,
                open_transfer \/ incarceration_period.release_reason = "TRANSFER")

RECURSIVE TransferLoop(_, _, _, _)
TransferLoop(l, i, new_incarceration_periods, open_transfer) ==
    IF i > Len(l) THEN new_incarceration_periods
    ELSE LET incarceration_period == l[i]
             n == Len(new_incarceration_periods)
             appended ==
                IF open_transfer /\ incarceration_period.admission_reason = "TRANSFER"
                THEN SubSeq(new_incarceration_periods, 1, n - 1)
                        \o <<combine_incarceration_periods(
                                new_incarceration_periods[n],
                                incarceration_period, FALSE)>>
                ELSE Append(new_incarceration_periods, incarceration_period)
         IN  TransferLoop(l, i + 1, appended,
                          incarceration_period.release_reason = "TRANSFER")

collapse_incarceration_period_transfers(l) == TransferLoop(l, 1, <<>>, FALSE)

\* The merge condition without its comparison of the dates.
TemporaryCustodyThenRevocationAnyDate(previous_period, incarceration_period) ==
    /\ previous_period.admission_reason = "TEMPORARY_CUSTODY"
    /\ incarceration_period.admission_reason \in Revocations

\* Lines 194-199: when two consecutive periods are merged.
TemporaryCustodyThenRevocation(previous_period, incarceration_period) ==
    /\ previous_period.release_date = incarceration_period.admission_date
    /\ previous_period.admission_reason = "TEMPORARY_CUSTODY"
    /\ incarceration_period.admission_reason \in Revocations

\* previous_period is a list of no period (None) or one.
RECURSIVE TemporaryCustodyLoop(_, _, _, _)
TemporaryCustodyLoop(l, i, previous_period, collapsed_ips) ==
    IF i > Len(l) THEN collapsed_ips \o previous_period
    ELSE LET incarceration_period == l[i] IN
         IF previous_period = <<>>
         THEN TemporaryCustodyLoop(l, i + 1, <<incarceration_period>>, collapsed_ips)
         ELSE IF TemporaryCustodyThenRevocation(previous_period[1],
                                                incarceration_period)
         THEN TemporaryCustodyLoop(l, i + 1, <<>>,
                  Append(collapsed_ips,
                         combine_incarceration_periods(previous_period[1],
                                                       incarceration_period, TRUE)))
         ELSE TemporaryCustodyLoop(l, i + 1, <<incarceration_period>>,
                                   collapsed_ips \o previous_period)

collapse_temporary_custody_and_revocation_periods(l) ==
    TemporaryCustodyLoop(l, 1, <<>>, <<>>)

_collapse_incarceration_periods_for_calculations(l, collapse_temp, collapse_transfers) ==
    LET collapsed_periods ==
            IF collapse_transfers
            THEN collapse_incarceration_period_transfers(l)
            ELSE l
    IN  IF collapse_temp
        THEN collapse_temporary_custody_and_revocation_periods(collapsed_periods)
        ELSE collapsed_periods

----------------------------------------------------------------------------
(* The full pipeline as one function, for running it on its own output.    *)

_filter_and_update_incarceration_periods_for_calculations(l, state_code) ==
    IF l = <<>> THEN [l |-> <<>>, err |-> FALSE]
    ELSE LET inferred ==
                _infer_missing_dates_and_statuses(drop_placeholder_periods(l))
         IN  IF inferred.err THEN inferred
             ELSE [l |-> validate_release_data(validate_admission_data(
                            drop_periods_not_under_state_custodial_authority(
                                inferred.l, state_code))),
                   err |-> FALSE]

\* The first of the two sorts alone.
SortByReleaseOnly(l) == listsort(l, "release")

\* Lines 269 and 273: the two stable sorts.
SortByReleaseThenAdmission(l) == listsort(listsort(l, "release").l, "admission")

prepare_incarceration_periods_for_calculations(l, prm) ==
    LET updated_periods ==
            _filter_and_update_incarceration_periods_for_calculations(
                l, prm.state_code)
    IN  IF updated_periods.err THEN updated_periods
        ELSE LET sorted == SortByReleaseThenAdmission(updated_periods.l) IN
             IF sorted.err THEN sorted
             ELSE [l |-> _collapse_incarceration_periods_for_calculations(
                            sorted.l,
                            prm.collapse_temporary_custody_periods_with_revocation,
                            prm.collapse_transfers),
                   err |-> FALSE]

----------------------------------------------------------------------------
(* Inputs of the full pipeline.                                            *)

\* The identities, in alphabetic order: the i-th period of an input list
\* has the i-th identity.  Every list is drawn together with its reversal,
\* so both orders of the identities meet every pair of periods.
IdAt(i) ==
    CASE i = 1 -> "a"
      [] i = 2 -> "b"
      [] i = 3 -> "c"
      [] OTHER -> "d"

\* Admission date and reason: either may be missing.
AdmissionShapes ==
    {<<NullDate, None>>, <<NullDate, "TRANSFER">>, <<1, None>>}
        \cup ((Dates \ {MaxDate})
                \X {"TRANSFER", "TEMPORARY_CUSTODY", "PAROLE_REVOCATION"})

\* Release date, release reason, raw text of the reason, status.
ReleaseShapes ==
    {<<NullDate, None, None, IN_CUSTODY>>,
     <<NullDate, None, "RAW", IN_CUSTODY>>,
     <<NullDate, None, None, NOT_IN_CUSTODY>>,
     <<NullDate, "TRANSFER", "RAW", NOT_IN_CUSTODY>>,
     <<Today, None, None, NOT_IN_CUSTODY>>,
     <<1, "SENTENCE_SERVED", "RAW", IN_CUSTODY>>,
     <<MaxDate, "SENTENCE_SERVED", "RAW", NOT_IN_CUSTODY>>}
        \cup {<<rd, rr, "RAW", NOT_IN_CUSTODY>> :
                rd \in Dates \ {MaxDate}, rr \in {"TRANSFER", "SENTENCE_SERVED"}}

\* County-jail periods come in two admission shapes only.
InputShapes ==
    {Period("a", STATE_PRISON, r[4], a[1], a[2], r[1], r[2], r[3], "F") :
        a \in AdmissionShapes, r \in ReleaseShapes}
    \cup
    {Period("a", COUNTY_JAIL, r[4], a[1], a[2], r[1], r[2], r[3], "F") :
        a \in {<<1, "TRANSFER">>, <<Today, "PAROLE_REVOCATION">>},
        r \in ReleaseShapes}
    \cup
    {Period(None, STATE_PRISON, NOT_IN_CUSTODY, NullDate, None, NullDate,
            None, None, None)}

\* The facility of a period tells the periods of a list apart.
FacilityAt(i) ==
    CASE i = 1 -> "F1"
      [] i = 2 -> "F2"
      [] i = 3 -> "F3"
      [] OTHER -> "F4"

\* So do its housing unit, its security level and its projected release
\* reason, and the raw texts.
HousingUnitAt(i) ==
    CASE i = 1 -> "H1"
      [] i = 2 -> "H2"
      [] i = 3 -> "H3"
      [] OTHER -> "H4"

SecurityLevelAt(i) ==
    CASE i = 1 -> "MINIMUM"
      [] i = 2 -> "MEDIUM"
      [] i = 3 -> "MAXIMUM"
      [] OTHER -> "EXTERNAL_UNKNOWN"

ProjectedReleaseAt(i) ==
    CASE i = 1 -> "SENTENCE_SERVED"
      [] i = 2 -> "CONDITIONAL_RELEASE"
      [] i = 3 -> "TRANSFER"
      [] OTHER -> "INTERNAL_UNKNOWN"

RawTextAt(i) ==
    CASE i = 1 -> "RAW1"
      [] i = 2 -> "RAW2"
      [] i = 3 -> "RAW3"
      [] OTHER -> "RAW4"

Numbered(f) ==
    [i \in DOMAIN f |->
        IF f[i].external_id = None THEN f[i]
        ELSE [f[i] EXCEPT !.external_id = IdAt(i),
                          !.facility = FacilityAt(i),
                          !.admission_reason_raw_text = RawTextAt(i),
                          !.housing_unit = HousingUnitAt(i),
                          !.facility_security_level = SecurityLevelAt(i),
                          !.facility_security_level_raw_text = RawTextAt(i),
                          !.projected_release_reason = ProjectedReleaseAt(i),
                          !.projected_release_reason_raw_text = RawTextAt(i)]]

\* Longer lists are drawn from fewer shapes: lists of three periods from
\* dated and undated prison stays that transfers, temporary custody and
\* revocations connect, longer ones from stays that transfers connect.
SeriesShapes ==
    {Period("a", STATE_PRISON, r[4], a[1], a[2], r[1], r[2], r[3], "F") :
        a \in {<<1, "TRANSFER">>, <<1, "TEMPORARY_CUSTODY">>,
               <<Today, "PAROLE_REVOCATION">>, <<NullDate, None>>},
        r \in {<<1, "SENTENCE_SERVED", "RAW", NOT_IN_CUSTODY>>,
               <<Today, "TRANSFER", "RAW", NOT_IN_CUSTODY>>,
               <<NullDate, None, None, IN_CUSTODY>>}}

ChainShapes ==
    {p \in SeriesShapes :
        /\ p.admission_reason \in {"TRANSFER", "PAROLE_REVOCATION"}
        /\ p.release_date # NullDate}

ShapesFor(n) ==
    IF n <= 2 THEN InputShapes
    ELSE IF n = 3 THEN SeriesShapes
    ELSE ChainShapes


\* The caller's objects: the i-th is object i.
WithRefs(l) == [i \in 1..Len(l) |-> [l[i] EXCEPT !.ref = i]]

\* An in-place update reaches the caller's object the period is.
WriteBack(o, l) ==
    [r \in 1..Len(o) |->
        IF \E i \in 1..Len(l) : l[i].ref = r
        THEN (CHOOSE p \in {l[i] : i \in 1..Len(l)} : p.ref = r)
        ELSE o[r]]

DefaultParams(state_code) ==
    [state_code |-> state_code,
     collapse_temporary_custody_periods_with_revocation |-> FALSE,
     collapse_transfers |-> TRUE]

NoResult == [l |-> <<>>, err |-> FALSE]

----------------------------------------------------------------------------
(* The full pipeline, step by step.                                        *)

Init ==
    /\ pc = "idle"
    /\ input = <<>>
    /\ objs = <<>>
    /\ ips = <<>>
    /\ params = DefaultParams("US_MO")
    /\ result = NoResult
    /\ raised = FALSE

\* prepare_incarceration_periods_for_calculations is called; line 285
\* returns the empty list at once.
Call ==
    /\ pc = "idle"
    /\ \E n \in 0..MaxLen, state_code \in StateCodes :
       \E f \in [1..n -> ShapesFor(n)] :
        /\ input' = WithRefs(Numbered(f))
        /\ objs' = input'
        /\ ips' = input'
        /\ params' = DefaultParams(state_code)
        /\ pc' = IF n = 0 THEN "sort" ELSE "drop_placeholder_periods"
    /\ UNCHANGED <<result, raised>>

DropPlaceholders ==
    /\ pc = "drop_placeholder_periods"
    /\ ips' = drop_placeholder_periods(ips)
    /\ pc' = "infer"
    /\ UNCHANGED <<input, objs, params, result, raised>>

Infer ==
    /\ pc = "infer"
    /\ LET inferred == _infer_missing_dates_and_statuses(ips) IN
        /\ ips' = inferred.l
        /\ objs' = WriteBack(objs, inferred.l)
        /\ raised' = inferred.err
        /\ pc' = IF inferred.err THEN "raised" ELSE "authority"
    /\ UNCHANGED <<input, params, result>>

AuthorityFilter ==
    /\ pc = "authority"
    /\ ips' = drop_periods_not_under_state_custodial_authority(ips, params.state_code)
    /\ pc' = "validate_admission_data"
    /\ UNCHANGED <<input, objs, params, result, raised>>

ValidateAdmission ==
    /\ pc = "validate_admission_data"
    /\ ips' = validate_admission_data(ips)
    /\ pc' = "validate_release_data"
    /\ UNCHANGED <<input, objs, params, result, raised>>

ValidateRelease ==
    /\ pc = "validate_release_data"
    /\ ips' = validate_release_data(ips)
    /\ objs' = WriteBack(objs, ips')
    /\ pc' = "sort"
    /\ UNCHANGED <<input, params, result, raised>>

SortByDates ==
    /\ pc = "sort"
    /\ LET sorted == SortByReleaseThenAdmission(ips) IN
        /\ ips' = sorted.l
        /\ raised' = sorted.err
        /\ pc' = IF sorted.err THEN "raised" ELSE "collapse"
    /\ UNCHANGED <<input, objs, params, result>>

Collapse ==
    /\ pc = "collapse"
    /\ \E temporary \in BOOLEAN, transfers \in BOOLEAN :
        /\ params' = [params EXCEPT
                !.collapse_temporary_custody_periods_with_revocation = temporary,
                !.collapse_transfers = transfers]
        /\ ips' = _collapse_incarceration_periods_for_calculations(
                        ips, temporary, transfers)
    /\ pc' = "done"
    /\ UNCHANGED <<input, objs, result, raised>>

\* The pipeline is run again, on its own output.
Rerun ==
    /\ pc = "done"
    /\ result' = prepare_incarceration_periods_for_calculations(
                        PlainList(ips), params)
    /\ pc' = "rerun"
    /\ UNCHANGED <<input, objs, ips, params, raised>>

Next ==
    \/ Call
    \/ DropPlaceholders
    \/ Infer
    \/ AuthorityFilter
    \/ ValidateAdmission
    \/ ValidateRelease
    \/ SortByDates
    \/ Collapse
    \/ Rerun

Spec == Init /\ [][Next]_vars

----------------------------------------------------------------------------
(* The comparator and the sort on their own.                               *)

\* Periods the comparator accepts: an identity and at least one date.
SortShapes ==
    {Period("a", STATE_PRISON, status, d[1], "NEW_ADMISSION", d[2],
            "SENTENCE_SERVED", None, "F") :
        status \in Statuses,
        d \in ((OptDates \ {MaxDate}) \X (OptDates \ {MaxDate}))
                \ {<<NullDate, NullDate>>}}

\* Lists longer than three hold periods of the first day only.
SortShapesFor(n) ==
    IF n <= 3 THEN SortShapes
    ELSE {p \in SortShapes : p.admission_date <= 1 /\ p.release_date <= 1}

Sign(n) == IF n < 0 THEN -1 ELSE IF n > 0 THEN 1 ELSE 0

InitialOrders(n) == {f \in [1..n -> 1..n] : \A i, j \in 1..n : f[i] = f[j] => i = j}

InitSort ==
    /\ pc = "compare"
    /\ \E n \in 2..MaxLen : \E f \in [1..n -> SortShapesFor(n)] :
            input = Numbered(f)
    /\ objs = <<>>
    /\ ips = <<>>
    /\ params = DefaultParams("US_MO")
    /\ result = [l |-> <<>>, err |-> FALSE, cmp |-> <<>>]
    /\ raised = FALSE

\* _sort_function is applied to every ordered pair of distinct periods.
Compare ==
    /\ pc = "compare"
    /\ result' = [result EXCEPT
            !.cmp = [i \in 1..Len(input) |-> [j \in 1..Len(input) |->
                        IF i = j THEN 0
                        ELSE Sign(_sort_function(input[i], input[j]))]],
            !.err = \E i, j \in 1..Len(input) :
                        i # j /\ _sort_functionRaises(input[i], input[j])]
    /\ pc' = "sort"
    /\ UNCHANGED <<input, objs, ips, params, raised>>

\* The list is sorted as given.
SortGiven ==
    /\ pc = "sort"
    /\ LET sorted == _sort_ips_by_set_dates_and_statuses(input) IN
        /\ ips' = sorted.l
        /\ raised' = sorted.err
    /\ pc' = "permute"
    /\ UNCHANGED <<input, objs, params, result>>

\* The same periods are sorted from another initial order.
SortPermuted ==
    /\ pc = "permute"
    /\ \E f \in InitialOrders(Len(input)) :
        LET sorted == _sort_ips_by_set_dates_and_statuses(
                            [i \in 1..Len(input) |-> input[f[i]]])
        IN  result' = [result EXCEPT !.l = sorted.l, !.err = sorted.err]
    /\ pc' = "sorted"
    /\ UNCHANGED <<input, objs, ips, params, raised>>

NextSort == Compare \/ SortGiven \/ SortPermuted

SpecSort == InitSort /\ [][NextSort]_vars

----------------------------------------------------------------------------
(* The two collapse functions on their own.                                *)

CollapseShapes ==
    {Period("a", STATE_PRISON, NOT_IN_CUSTODY, d[1], ar, d[2], rr, "RAW", "F") :
        d \in {e \in (Dates \ {MaxDate}) \X (Dates \ {MaxDate}) : e[1] <= e[2]},
        ar \in {"TRANSFER", "TEMPORARY_CUSTODY", "NEW_ADMISSION"} \cup Revocations,
        rr \in {"TRANSFER", "SENTENCE_SERVED"}}

\* Lists longer than three hold periods of the first day only, admitted by
\* transfer, into temporary custody or on a parole revocation.
CollapseShapesFor(n) ==
    IF n <= 3 THEN CollapseShapes
    ELSE {p \in CollapseShapes :
            /\ p.release_date = 1
            /\ p.admission_reason \in
                    {"TRANSFER", "TEMPORARY_CUSTODY", "PAROLE_REVOCATION"}}

InitCollapse ==
    /\ pc = "collapse"
    /\ \E n \in 0..MaxChain : \E f \in [1..n -> CollapseShapesFor(n)] :
            input = Numbered(f)
    /\ objs = <<>>
    /\ ips = <<>>
    /\ params = DefaultParams("US_MO")
    /\ result = NoResult
    /\ raised = FALSE

CollapseTransfers ==
    /\ pc = "collapse"
    /\ result' = [l |-> collapse_incarceration_period_transfers(input),
                  err |-> FALSE]
    /\ pc' = "transfers_collapsed"
    /\ UNCHANGED <<input, objs, ips, params, raised>>

CollapseTemporaryCustody ==
    /\ pc = "collapse"
    /\ result' = [l |-> collapse_temporary_custody_and_revocation_periods(input),
                  err |-> FALSE]
    /\ pc' = "temporary_custody_collapsed"
    /\ UNCHANGED <<input, objs, ips, params, raised>>

\* combine_incarceration_periods on the first two periods of the list,
\* which are the caller's objects 1 and 2; whatever the call assigns to
\* an object of the caller's shows in objs.
Combine ==
    /\ pc = "collapse"
    /\ Len(input) = 2
    /\ \E overwrite_admission_reason \in BOOLEAN :
        LET given == WithRefs(input)
            combined == combine_incarceration_periods(
                            given[1], given[2], overwrite_admission_reason)
        IN  /\ result' = [l |-> <<combined>>, err |-> FALSE,
                          overwrite_admission_reason |-> overwrite_admission_reason]
            /\ objs' = WriteBack(given, <<combined>>)
    /\ pc' = "combined"
    /\ UNCHANGED <<input, ips, params, raised>>

NextCollapse == CollapseTransfers \/ CollapseTemporaryCustody \/ Combine

SpecCollapse == InitCollapse /\ [][NextCollapse]_vars

----------------------------------------------------------------------------
(* validate_release_data and _infer_missing_dates_and_statuses on their    *)
(* own, on lists that no earlier stage has been through.                   *)

\* Every release date, with and without a reason, its raw text, in either
\* status.
ReleaseValidationShapes ==
    {Period("a", STATE_PRISON, status, 1, "NEW_ADMISSION", rd, rr, raw, "F") :
        status \in Statuses, rd \in OptDates,
        rr \in {None, "SENTENCE_SERVED"}, raw \in {None, "RAW"}}

StageShapesFor(n) ==
    IF n <= 2 THEN InputShapes \cup ReleaseValidationShapes ELSE ShapesFor(n)

InitStages ==
    /\ pc = "stage"
    /\ \E n \in 0..MaxLen : \E f \in [1..n -> StageShapesFor(n)] :
            input = WithRefs(Numbered(f))
    /\ objs = <<>>
    /\ ips = <<>>
    /\ params = DefaultParams("US_MO")
    /\ result = NoResult
    /\ raised = FALSE

ValidateReleaseAlone ==
    /\ pc = "stage"
    /\ result' = [l |-> validate_release_data(input), err |-> FALSE]
    /\ pc' = "release_validated"
    /\ UNCHANGED <<input, objs, ips, params, raised>>

\* The list has been through drop_placeholder_periods, as at line 290.
InferAlone ==
    /\ pc = "stage"
    /\ \A i \in 1..Len(input) : ~is_placeholder(input[i])
    /\ result' = _infer_missing_dates_and_statuses(input)
    /\ raised' = result'.err
    /\ pc' = "inferred"
    /\ UNCHANGED <<input, objs, ips, params>>

NextStages == ValidateReleaseAlone \/ InferAlone

SpecStages == InitStages /\ [][NextStages]_vars

----------------------------------------------------------------------------
(* Event derivation (recidiviz/calculator/pipeline/incarceration/          *)
(* identifier.py).  The module is not part of the sources at hand; its     *)
(* tests are.  Dates are day numbers of the calendar, day 1 being          *)
(* 2000-01-01, and a month is counted from January 2000, which is month 0. *)

\* Latest month of the dates drawn for a stay.
MaxMonth == 3

\* Longest list handed to the de-duplication.
MaxDup == 3

LeapYear(year) == (year % 4 = 0 /\ year % 100 # 0) \/ year % 400 = 0

DaysInMonth(m) ==
    LET month == (m % 12) + 1
    IN  IF month = 2 THEN (IF LeapYear(2000 + (m \div 12)) THEN 29 ELSE 28)
        ELSE IF month \in {4, 6, 9, 11} THEN 30
        ELSE 31

\* The days from 2000-01-01 to the first day of a year.
DaysBeforeYear(year) ==
    LET y == year - 1
    IN  365 * (year - 2000)
            + ((y \div 4) - (y \div 100) + (y \div 400))
            - ((1999 \div 4) - (1999 \div 100) + (1999 \div 400))

\* The days of the year before the first day of its i-th month.
DaysBeforeMonth(year, i) ==
    <<0, 31, 59, 90, 120, 151, 181, 212, 243, 273, 304, 334>>[i]
        + (IF i > 2 /\ LeapYear(year) THEN 1 ELSE 0)

\* The first day of month m.
MonthStart(m) ==
    1 + DaysBeforeYear(2000 + (m \div 12))
      + DaysBeforeMonth(2000 + (m \div 12), (m % 12) + 1)

\* date(year, month, day)
Date(year, month, day) == MonthStart((year - 2000) * 12 + month - 1) + day - 1

RECURSIVE MonthScan(_, _)
MonthScan(day, m) ==
    IF day < MonthStart(m + 1) THEN m ELSE MonthScan(day, m + 1)

\* The month a date lies in, looked for from the January of a year that is
\* not after the date.
MonthOf(day) == MonthScan(day, 12 * ((day - 1) \div 366))

\* calculator_utils.last_day_of_month
last_day_of_month(day) == MonthStart(MonthOf(day) + 1) - 1

IncarcerationStayEvent(ip, event_date) ==
    [event_date |-> event_date,
     admission_reason |-> ip.admission_reason,
     facility |-> ip.facility]

\* A period without a release date counted through the current month.
StayEndAfterCurrentMonth(ip, today) ==
    IF ip.release_date = NullDate
    THEN last_day_of_month(today) + 1
    ELSE ip.release_date

\* A period without a release date counts up to the processing date, as
\* test_find_end_of_month_state_prison_stays_no_release (22 months from
\* 2018-01-20 on 2019-11-01) and ..._still_in_custody have it.
StayEnd(ip, today) ==
    IF ip.release_date = NullDate THEN today ELSE ip.release_date

\* One event for each month from |first| through |last|, in order.
StayEvents(ip, first, last) ==
    [k \in 1..(last - first + 1) |->
        IncarcerationStayEvent(ip, MonthStart(first + k) - 1)]

\* The stays with an event for the month of the release as well.
stays_through_release_month(ip, today) ==
    IF ip.incarceration_type # STATE_PRISON THEN <<>>
    ELSE IF ip.admission_date = NullDate THEN <<>>
    ELSE StayEvents(ip, MonthOf(ip.admission_date), MonthOf(StayEnd(ip, today)))

\* From the admission month through the month before the release; a stay
\* within one month has the event of that month.
find_end_of_month_state_prison_stays(ip, today) ==
    IF ip.incarceration_type # STATE_PRISON THEN <<>>
    ELSE IF ip.admission_date = NullDate THEN <<>>
    ELSE LET first == MonthOf(ip.admission_date)
             end == MonthOf(StayEnd(ip, today))
         IN  StayEvents(ip, first, IF end = first THEN first ELSE end - 1)

\* What makes two periods the same admission, or the same release.
AdmissionSignal(ip) ==
    <<ip.external_id, ip.admission_date, ip.admission_reason>>

ReleaseSignal(ip) ==
    <<ip.external_id, ip.release_date, ip.release_reason>>

\* The periods of l, from the i-th on, whose signal is not in |seen|: the
\* first period of each signal.  |kind| is "admission" or "release".
RECURSIVE DeDuplicateLoop(_, _, _, _, _)
DeDuplicateLoop(l, i, kind, seen, unique) ==
    IF i > Len(l) THEN unique
    ELSE LET signal == IF kind = "admission" THEN AdmissionSignal(l[i])
                       ELSE ReleaseSignal(l[i])
         IN  DeDuplicateLoop(l, i + 1, kind, seen \cup {signal},
                             IF signal \in seen THEN unique
                             ELSE Append(unique, l[i]))

\* A de-duplication that takes two admissions of one identity and day for
\* the same, whatever their reasons.
RECURSIVE DeDuplicateByDateLoop(_, _, _, _)
DeDuplicateByDateLoop(l, i, seen, unique) ==
    IF i > Len(l) THEN unique
    ELSE LET signal == <<l[i].external_id, l[i].admission_date>>
         IN  DeDuplicateByDateLoop(l, i + 1, seen \cup {signal},
                                   IF signal \in seen THEN unique
                                   ELSE Append(unique, l[i]))

de_duplicated_admissions_by_date(l) == DeDuplicateByDateLoop(l, 1, {}, <<>>)

de_duplicated_admissions(l) == DeDuplicateLoop(l, 1, "admission", {}, <<>>)

de_duplicated_releases(l) == DeDuplicateLoop(l, 1, "release", {}, <<>>)

IncarcerationAdmissionEvent(ip) ==
    [event_date |-> ip.admission_date,
     admission_reason |-> ip.admission_reason,
     facility |-> ip.facility]

IncarcerationReleaseEvent(ip) ==
    [event_date |-> ip.release_date,
     release_reason |-> ip.release_reason,
     facility |-> ip.facility]

\* An admission event for a period of any custody type.
admission_event_for_any_type(ip) == <<IncarcerationAdmissionEvent(ip)>>

\* The admission event of a state-prison period, as a list of one event;
\* the empty list stands for None.
admission_event_for_period(ip) ==
    IF ip.incarceration_type = STATE_PRISON
    THEN <<IncarcerationAdmissionEvent(ip)>>
    ELSE <<>>

\* The release event of a state-prison period, or None.
release_event_for_period(ip) ==
    IF ip.incarceration_type = STATE_PRISON
    THEN <<IncarcerationReleaseEvent(ip)>>
    ELSE <<>>

\* Dates of the first months: the first, the twentieth and the last day.
EventDates ==
    {MonthStart(m) + d - 1 : m \in 0..MaxMonth, d \in {1, 20}}
        \cup {MonthStart(m + 1) - 1 : m \in 0..MaxMonth}

StayShapes ==
    {Period("a", type, status, ad, "NEW_ADMISSION", rd,
            IF rd = NullDate THEN None ELSE "SENTENCE_SERVED", None, "PRISON3") :
        type \in {STATE_PRISON, COUNTY_JAIL}, status \in Statuses,
        ad \in {NullDate} \cup EventDates, rd \in {NullDate} \cup EventDates}

\* The periods of TestFindEndOfMonthStatePrisonStays, with the date the
\* test is frozen at (any date where it is not).
TestPeriod(type, status, ad, rd) ==
    Period("a", type, status, ad, "NEW_ADMISSION", rd,
           IF rd = NullDate THEN None ELSE "SENTENCE_SERVED", None, "PRISON3")

TestCases ==
    {[period |-> TestPeriod(STATE_PRISON, NOT_IN_CUSTODY,
                            Date(2000, 1, 20), Date(2010, 12, 1)),
      today |-> Date(2019, 12, 2)],
     [period |-> TestPeriod(STATE_PRISON, NOT_IN_CUSTODY,
                            Date(2018, 1, 20), NullDate),
      today |-> Date(2019, 11, 1)],
     [period |-> TestPeriod(STATE_PRISON, NOT_IN_CUSTODY,
                            Date(2000, 1, 31), Date(2000, 2, 13)),
      today |-> Date(2019, 12, 2)],
     [period |-> TestPeriod(STATE_PRISON, IN_CUSTODY,
                            Date(2019, 11, 30), NullDate),
      today |-> Date(2019, 12, 2)],
     [period |-> TestPeriod(STATE_PRISON, NOT_IN_CUSTODY,
                            Date(2019, 11, 29), Date(2019, 11, 30)),
      today |-> Date(2019, 12, 2)],
     [period |-> TestPeriod(STATE_PRISON, NOT_IN_CUSTODY,
                            Date(2019, 11, 15), Date(2019, 12, 1)),
      today |-> Date(2019, 12, 2)],
     [period |-> TestPeriod(STATE_PRISON, NOT_IN_CUSTODY,
                            Date(2019, 7, 31), Date(2019, 7, 31)),
      today |-> Date(2019, 12, 2)],
     [period |-> TestPeriod(COUNTY_JAIL, NOT_IN_CUSTODY,
                            Date(2000, 1, 31), Date(2000, 2, 13)),
      today |-> Date(2019, 12, 2)]}

\* Periods of two identities, admitted and released on one of two days for
\* one of two reasons.
DuplicateShapes ==
    {Period(id, STATE_PRISON, NOT_IN_CUSTODY, ad, ar, r[1], r[2], None, "PRISON3") :
        id \in {"a", "b"},
        ad \in {Date(2000, 1, 20), Date(2000, 1, 31)},
        ar \in {"NEW_ADMISSION", "PAROLE_REVOCATION"},
        r \in {<<Date(2000, 1, 31), "TRANSFER">>,
               <<Date(2000, 2, 13), "TRANSFER">>,
               <<Date(2000, 2, 13), "SENTENCE_SERVED">>}}

\* The periods of TestAdmissionEventForPeriod and TestReleaseEventForPeriod,
\* of either custody type and with some of the reasons.
EventShapes ==
    {Period("a", type, NOT_IN_CUSTODY, ad, ar, rd, rr, None, "PRISON3") :
        type \in {STATE_PRISON, COUNTY_JAIL},
        ad \in {Date(2008, 11, 20), Date(2013, 11, 20)},
        ar \in {"NEW_ADMISSION", "PAROLE_REVOCATION", "TRANSFER"},
        rd \in {Date(2010, 12, 4), Date(2019, 12, 4)},
        rr \in {"SENTENCE_SERVED", "TRANSFER"}}

EventParams(today) == [today |-> today]

InitEvents ==
    /\ pc = "events"
    /\ \/ \E ip \in StayShapes, today \in EventDates :
            /\ ip.admission_date <= today
            /\ ip.release_date = NullDate \/ ip.admission_date <= ip.release_date
            /\ input = <<ip>>
            /\ params = EventParams(today)
       \/ \E t \in TestCases :
            /\ input = <<t.period>>
            /\ params = EventParams(t.today)
       \/ \E n \in 0..MaxDup : \E f \in [1..n -> DuplicateShapes] :
            /\ input = f
            /\ params = EventParams(Date(2000, 2, 13))
       \/ \E ip \in EventShapes :
            /\ ip.admission_date <= ip.release_date
            /\ input = <<ip>>
            /\ params = EventParams(Date(2019, 12, 4))
    /\ objs = <<>>
    /\ ips = <<>>
    /\ result = NoResult
    /\ raised = FALSE

FindStays ==
    /\ pc = "events"
    /\ Len(input) = 1
    /\ result' = [l |-> find_end_of_month_state_prison_stays(input[1], params.today),
                  err |-> FALSE]
    /\ pc' = "stays_found"
    /\ UNCHANGED <<input, objs, ips, params, raised>>

DeDuplicateAdmissions ==
    /\ pc = "events"
    /\ result' = [l |-> de_duplicated_admissions(input), err |-> FALSE]
    /\ pc' = "admissions_de_duplicated"
    /\ UNCHANGED <<input, objs, ips, params, raised>>

DeDuplicateReleases ==
    /\ pc = "events"
    /\ result' = [l |-> de_duplicated_releases(input), err |-> FALSE]
    /\ pc' = "releases_de_duplicated"
    /\ UNCHANGED <<input, objs, ips, params, raised>>

\* The tests call the two functions on periods with both dates.
AdmissionEvent ==
    /\ pc = "events"
    /\ Len(input) = 1
    /\ input[1].admission_date # NullDate
    /\ result' = [l |-> admission_event_for_period(input[1]), err |-> FALSE]
    /\ pc' = "admission_event_found"
    /\ UNCHANGED <<input, objs, ips, params, raised>>

ReleaseEvent ==
    /\ pc = "events"
    /\ Len(input) = 1
    /\ input[1].release_date # NullDate
    /\ result' = [l |-> release_event_for_period(input[1]), err |-> FALSE]
    /\ pc' = "release_event_found"
    /\ UNCHANGED <<input, objs, ips, params, raised>>

NextEvents ==
    \/ FindStays
    \/ DeDuplicateAdmissions
    \/ DeDuplicateReleases
    \/ AdmissionEvent
    \/ ReleaseEvent

SpecEvents == InitEvents /\ [][NextEvents]_vars

----------------------------------------------------------------------------
(* Properties of the comparator and the sort (SpecSort).                   *)

Compared == pc \in {"sort", "permute", "sorted"}

Antisymmetric ==
    \A i, j \in 1..Len(input) :
        i # j => /\ result.cmp[i][j] # 0
                 /\ result.cmp[i][j] = -result.cmp[j][i]

Transitive ==
    \A i, j, k \in 1..Len(input) :
        (i # j /\ j # k /\ i # k /\ result.cmp[i][j] < 0 /\ result.cmp[j][k] < 0)
            => result.cmp[i][k] < 0

\* C1: on periods with different identities and at least one date each,
\* _sort_function is antisymmetric and transitive.
C1_StrictTotalOrder == Compared => (Antisymmetric /\ Transitive)

\* C2: _sort_ips_by_set_dates_and_statuses gives the same final order from
\* every initial order of the same periods.
C2_SortIgnoresInitialOrder ==
    pc = "sorted" => (~result.err /\ ~raised /\ result.l = ips)

----------------------------------------------------------------------------
(* Properties of the collapse functions on their own (SpecCollapse).       *)

\* Every period released by TRANSFER, every one after the first admitted
\* by TRANSFER.
IsTransferChain(l) ==
    /\ Len(l) >= 1
    /\ \A i \in 1..Len(l) : l[i].release_reason = "TRANSFER"
    /\ \A i \in 2..Len(l) : l[i].admission_reason = "TRANSFER"

\* C4: a transfer chain of N >= 1 periods collapses to exactly one period,
\* admitted as the first period was and released as the last one was.
C4_TransferChainCollapses ==
    (pc = "transfers_collapsed" /\ IsTransferChain(input)) =>
        /\ Len(result.l) = 1
        /\ result.l[1].admission_date = input[1].admission_date
        /\ result.l[1].admission_reason = input[1].admission_reason
        /\ result.l[1].release_date = input[Len(input)].release_date
        /\ result.l[1].release_reason = input[Len(input)].release_reason

C4_Witness ==
    /\ pc = "transfers_collapsed"
    /\ IsTransferChain(input)
    /\ Len(input) = MaxChain
    /\ input[1].admission_reason # "TRANSFER"
    /\ input[1].admission_date < input[Len(input)].release_date

Occurs(p, l) == \E k \in 1..Len(l) : Plain(l[k]) = Plain(p)

\* m is p and q merged: admitted when p was, for the reason q was, and
\* released as q was.
MergedOf(m, p, q) ==
    /\ m.external_id = p.external_id
    /\ m.admission_date = p.admission_date
    /\ m.admission_reason = q.admission_reason
    /\ m.release_date = q.release_date
    /\ m.release_reason = q.release_reason
    /\ m.status = q.status

\* C5: a temporary-custody period directly followed by a period admitted on
\* a revocation is merged with it, into one period with the revocation as
\* admission reason, exactly if the first period's release date is the
\* second period's admission date; otherwise both are returned unchanged.
C5_TemporaryCustodyCollapse ==
    pc = "temporary_custody_collapsed" =>
        \A i \in 1..(Len(input) - 1) :
            (/\ input[i].admission_reason = "TEMPORARY_CUSTODY"
             /\ input[i + 1].admission_reason \in Revocations) =>
                IF input[i].release_date = input[i + 1].admission_date
                THEN /\ \E k \in 1..Len(result.l) :
                            MergedOf(result.l[k], input[i], input[i + 1])
                     /\ ~Occurs(input[i], result.l)
                     /\ ~Occurs(input[i + 1], result.l)
                ELSE /\ \A k \in 1..Len(result.l) :
                            ~MergedOf(result.l[k], input[i], input[i + 1])
                     /\ Occurs(input[i], result.l)
                     /\ Occurs(input[i + 1], result.l)

C5_Witness ==
    /\ pc = "temporary_custody_collapsed"
    /\ Len(input) = 3
    /\ input[1].admission_reason = "TEMPORARY_CUSTODY"
    /\ input[2].admission_reason = "TEMPORARY_CUSTODY"
    /\ input[3].admission_reason \in Revocations
    /\ input[2].release_date = input[3].admission_date
    /\ Len(result.l) = 2
    /\ result.l[2].admission_reason = input[3].admission_reason
    /\ result.l[2].admission_date = input[2].admission_date

SortedByAdmission(l) ==
    \A i \in 1..(Len(l) - 1) : l[i].admission_date <= l[i + 1].admission_date

\* C16: the transfer collapse and the temporary-custody collapse raise an
\* error when the list they are given is not sorted by ascending admission
\* date.
C16_UnsortedRaises ==
    (/\ pc \in {"transfers_collapsed", "temporary_custody_collapsed"}
     /\ ~SortedByAdmission(input)) => result.err

----------------------------------------------------------------------------
(* Properties of the full pipeline (Spec).                                 *)

\* C3: the pipeline run on its own output returns that output.
C3_Idempotent ==
    pc = "rerun" => (~result.err /\ PlainList(result.l) = PlainList(ips))

\* C6: every period of the output has its admission date and reason, and,
\* unless it is in custody, its release date and reason.
C6_OutputComplete ==
    pc = "done" =>
        \A i \in 1..Len(ips) :
            /\ ips[i].admission_date # NullDate
            /\ ips[i].admission_reason # None
            /\ ips[i].status # IN_CUSTODY =>
                    /\ ips[i].release_date # NullDate
                    /\ ips[i].release_reason # None

\* A period whose admission date was inferred and one whose release reason
\* was defaulted both reach the output.
C6_Witness ==
    /\ pc = "done"
    /\ Len(ips) = 2
    /\ Len(input) = 2
    /\ \E j \in 1..2 : input[j].admission_date = NullDate
    /\ \E j \in 1..2 : input[j].release_date # NullDate
                        /\ input[j].release_reason = None
    /\ \E i \in 1..2 : ips[i].status # IN_CUSTODY

\* C7: at most one period of the output is in custody, and it is the last.
C7_OnlyLastInCustody ==
    pc = "done" =>
        \A i \in 1..Len(ips) : ips[i].status = IN_CUSTODY => i = Len(ips)

\* C8: the output is sorted by ascending admission date.
C8_OutputSorted ==
    pc = "done" =>
        \A i \in 1..(Len(ips) - 1) :
            /\ ips[i].admission_date # NullDate
            /\ ips[i + 1].admission_date # NullDate
            /\ ips[i].admission_date <= ips[i + 1].admission_date

\* The output holds a combined period and another one, admitted later, and
\* the caller's list had them in another order.
C8_Witness ==
    /\ pc = "done"
    /\ Len(ips) = 2
    /\ \E i \in 1..2 : Len(ips[i].members) = 2
    /\ ips[1].admission_date < ips[2].admission_date
    /\ ips[1].external_id # "a"

\* C9: with collapsing enabled, every output period but the last has a
\* release date, and it is not after the next period's admission date.
C9_NoOverlap ==
    (/\ pc = "done"
     /\ params.collapse_transfers
     /\ params.collapse_temporary_custody_periods_with_revocation) =>
        \A i \in 1..(Len(ips) - 1) :
            /\ ips[i].release_date # NullDate
            /\ ips[i].release_date <= ips[i + 1].admission_date

Count(id, l) == Cardinality({i \in 1..Len(l) : l[i].external_id = id})

\* C10: every identity of the output is an identity of the input and
\* occurs no more often than there; a combined period has the identity of
\* its earliest-admitted constituent.
C10_Identities ==
    pc = "done" =>
        \A i \in 1..Len(ips) :
            /\ \E j \in 1..Len(input) : input[j].external_id = ips[i].external_id
            /\ Count(ips[i].external_id, ips) <= Count(ips[i].external_id, input)
            /\ ips[i].members # <<>> =>
                /\ ips[i].external_id = ips[i].members[1].external_id
                /\ \A k \in 1..Len(ips[i].members) :
                        ips[i].members[1].admission_date
                            <= ips[i].members[k].admission_date

\* A period combined by both collapses, from three periods.
C10_Witness ==
    /\ pc = "done"
    /\ \E i \in 1..Len(ips) :
        /\ Len(ips[i].members) = 3
        /\ ips[i].admission_reason \in Revocations
        /\ \E k \in 2..3 : ips[i].members[k].admission_date
                                > ips[i].members[1].admission_date

\* C11: when the pipeline has returned, the caller's objects are as they
\* were at the call: same status, dates and reasons, in the same order
\* (the caller's list itself is only read: line 42 builds a new list).
C11_CallerObjectsUnchanged == pc = "done" => objs = input

\* The stage of the engine a step belongs to: 1 the Validator, 2 the
\* Authority Filter, 3 the Chronological Normalizer, 4 the Period Collapser
\* with the sort by admission date that prepares it; 0 before the call and
\* 5 after it.
StageOf(step) ==
    CASE step = "idle" -> 0
      [] step \in {"drop_placeholder_periods", "validate_admission_data",
                   "validate_release_data"} -> 1
      [] step = "authority" -> 2
      [] step = "infer" -> 3
      [] step \in {"sort", "collapse"} -> 4
      [] OTHER -> 5

\* What the Validator and the Authority Filter leave of a list, unchanged.
PassedValidationAndFilter(l, state_code) ==
    validate_release_data(validate_admission_data(
        drop_periods_not_under_state_custodial_authority(l, state_code))) = l

\* C12: the steps of a call run in the order Validator, Authority Filter,
\* Chronological Normalizer, Period Collapser, never going back to an
\* earlier stage, and sort + inference is only given periods that
\* validation and the authority filter leave as they are.
C12_StageOrder ==
    /\ [][StageOf(pc) <= StageOf(pc')]_vars
    /\ [](pc = "infer" => PassedValidationAndFilter(ips, params.state_code))

\* The period of identity id is part of the output, alone or combined.
InOutput(id) ==
    \E i \in 1..Len(ips) :
        \/ ips[i].external_id = id
        \/ \E k \in 1..Len(ips[i].members) : ips[i].members[k].external_id = id

\* C13: a period given with a release reason or its raw text but without
\* a release date is not part of the output, whatever its position and its
\* status: no release date is inferred for it.
C13_ReasonWithoutDateDropped ==
    pc = "done" =>
        \A j \in 1..Len(input) :
            (/\ input[j].release_date = NullDate
             /\ \/ input[j].release_reason # None
                \/ input[j].release_reason_raw_text # None) =>
                ~InOutput(input[j].external_id)

----------------------------------------------------------------------------
(* Properties of the stages on their own (SpecStages).                     *)

\* The period of the result that is the j-th object of the input, if kept.
Returned(j) == {i \in 1..Len(result.l) : result.l[i].ref = j}

NoDates(ip) == ip.admission_date = NullDate /\ ip.release_date = NullDate

\* C15: _infer_missing_dates_and_statuses raises an error when one of the
\* periods it is given has neither an admission date nor a release date,
\* whatever the length of the list.
C15_NoDatesRaises ==
    pc = "inferred" =>
        ((\E j \in 1..Len(input) : NoDates(input[j])) => result.err)

\* C17: inference on a list of one period that has a release date and no
\* admission date sets the admission date to the release date and the
\* admission reason to INTERNAL_UNKNOWN, and leaves the release date and
\* the release reason as they were.
C17_SingleReleaseOnly ==
    (/\ pc = "inferred"
     /\ Len(input) = 1
     /\ input[1].release_date # NullDate
     /\ input[1].admission_date = NullDate) =>
        /\ ~result.err
        /\ Len(result.l) = 1
        /\ result.l[1].admission_date = input[1].release_date
        /\ result.l[1].admission_reason = "INTERNAL_UNKNOWN"
        /\ result.l[1].release_date = input[1].release_date
        /\ result.l[1].release_reason = input[1].release_reason

\* The period was given with an admission reason and no release reason.
C17_Witness ==
    /\ pc = "inferred"
    /\ Len(input) = 1
    /\ input[1].release_date = Today
    /\ input[1].admission_date = NullDate
    /\ input[1].admission_reason = "TRANSFER"
    /\ input[1].release_reason = None
    /\ result.l[1].admission_date = Today

----------------------------------------------------------------------------
(* Properties of the event derivation (SpecEvents).                        *)

\* The events are those of the n months from the month of |from| on, in
\* order, each dated at the last day of its month.
MonthlyFrom(events, from, n) ==
    /\ Len(events) = n
    /\ \A k \in 1..n : events[k].event_date = MonthStart(MonthOf(from) + k) - 1

\* C18: a state-prison period admitted on A and released on R, A <= R, has
\* one stay event for each month from the month of A through the month
\* before the month of R, each dated at the last day of its month, and one
\* event if A and R lie in one month; admitted 2000-01-20 and released
\* 2010-12-01 it has 131 events; a period with no admission date has none.
C18_MonthlyStays ==
    (pc = "stays_found" /\ input[1].incarceration_type = STATE_PRISON) =>
        LET A == input[1].admission_date
            R == input[1].release_date
        IN  /\ A = NullDate => result.l = <<>>
            /\ (A # NullDate /\ R # NullDate /\ A <= R) =>
                    MonthlyFrom(result.l, A,
                                IF MonthOf(A) = MonthOf(R) THEN 1
                                ELSE MonthOf(R) - MonthOf(A))
            /\ (A = Date(2000, 1, 20) /\ R = Date(2010, 12, 1)) =>
                    Len(result.l) = 131

C18_Witness ==
    /\ pc = "stays_found"
    /\ input[1].incarceration_type = STATE_PRISON
    /\ input[1].admission_date = Date(2000, 1, 20)
    /\ input[1].release_date = Date(2010, 12, 1)
    /\ Len(result.l) = 131
    /\ result.l[131].event_date = Date(2010, 11, 30)

NoRelease ==
    /\ pc = "stays_found"
    /\ input[1].incarceration_type = STATE_PRISON
    /\ input[1].admission_date # NullDate
    /\ input[1].release_date = NullDate

\* C19: a state-prison period with an admission date and no release date
\* has one stay event for each month from the admission month through the
\* month of the processing date, each dated at the last day of its month.
C19_StaysThroughCurrentMonth ==
    NoRelease =>
        MonthlyFrom(result.l, input[1].admission_date,
                    MonthOf(params.today) - MonthOf(input[1].admission_date) + 1)

\* C19 as amended: admitted in a month before the month of the processing
\* date, which is not the last day of its month, the period has one stay
\* event for each month from the admission month through the month before
\* the month of the processing date, each dated at the last day of its
\* month.
C19_StaysBeforeCurrentMonth ==
    (/\ NoRelease
     /\ MonthOf(input[1].admission_date) < MonthOf(params.today)
     /\ params.today # last_day_of_month(params.today)) =>
        MonthlyFrom(result.l, input[1].admission_date,
                    MonthOf(params.today) - MonthOf(input[1].admission_date))

\* test_find_end_of_month_state_prison_stays_no_release
C19_Witness ==
    /\ NoRelease
    /\ input[1].admission_date = Date(2018, 1, 20)
    /\ params.today = Date(2019, 11, 1)
    /\ Len(result.l) = 22
    /\ result.l[22].event_date = Date(2019, 10, 31)

\* Identity, date and reason of the admission, or of the release.
SignalOf(kind, ip) ==
    IF kind = "admission"
    THEN <<ip.external_id, ip.admission_date, ip.admission_reason>>
    ELSE <<ip.external_id, ip.release_date, ip.release_reason>>

\* The position in the input of the first period with the signal of ip.
FirstWith(kind, ip) ==
    CHOOSE i \in 1..Len(input) :
        /\ SignalOf(kind, input[i]) = SignalOf(kind, ip)
        /\ \A j \in 1..(i - 1) : SignalOf(kind, input[j]) # SignalOf(kind, ip)

\* The result holds, in the order of the input, the first period of each
\* signal of the input and nothing else.
FirstOfEachSignal(kind) ==
    /\ Len(result.l) =
            Cardinality({SignalOf(kind, input[i]) : i \in 1..Len(input)})
    /\ \A k \in 1..Len(result.l) :
            /\ \E i \in 1..Len(input) : input[i] = result.l[k]
            /\ result.l[k] = input[FirstWith(kind, result.l[k])]
    /\ \A k \in 1..(Len(result.l) - 1) :
            FirstWith(kind, result.l[k]) < FirstWith(kind, result.l[k + 1])

\* C20: de_duplicated_admissions returns, in the order of the input, the
\* first period of each combination of identity, admission date and
\* admission reason, and de_duplicated_releases the first period of each
\* combination of identity, release date and release reason: periods of
\* one identity and date with different reasons are all kept, periods that
\* differ in the other date only are one.
C20_DeDuplicated ==
    /\ pc = "admissions_de_duplicated" => FirstOfEachSignal("admission")
    /\ pc = "releases_de_duplicated" => FirstOfEachSignal("release")

\* Two admissions of one identity and day for different reasons, and a
\* third that differs from the first in its release date only.
C20_Witness ==
    /\ pc = "admissions_de_duplicated"
    /\ Len(input) = 3
    /\ input[1].external_id = input[2].external_id
    /\ input[1].admission_date = input[2].admission_date
    /\ input[1].admission_reason # input[2].admission_reason
    /\ SignalOf("admission", input[3]) = SignalOf("admission", input[1])
    /\ input[3].release_date # input[1].release_date
    /\ result.l = <<input[1], input[2]>>

\* A period with an admission date and reason and a release date and reason.
CompleteData(ip) ==
    /\ ip.admission_date # NullDate
    /\ ip.admission_reason # None
    /\ ip.release_date # NullDate
    /\ ip.release_reason # None

EventSteps == {"stays_found", "admission_event_found", "release_event_found"}

\* C21: a county-jail period with complete admission and release data
\* yields no admission event, no release event and no monthly stay event,
\* whatever its dates and reasons; every period that yields an event is a
\* state-prison period.
C21_CountyJailYieldsNothing ==
    pc \in EventSteps =>
        /\ (input[1].incarceration_type = COUNTY_JAIL /\ CompleteData(input[1]))
                => result.l = <<>>
        /\ result.l # <<>> => input[1].incarceration_type = STATE_PRISON

\* The county-jail period of test_admission_event_for_period_county_jail,
\* admitted 2013-11-20 and released 2019-12-04, has no admission event.
C21_Witness ==
    /\ pc = "admission_event_found"
    /\ input[1].incarceration_type = COUNTY_JAIL
    /\ input[1].admission_date = Date(2013, 11, 20)
    /\ input[1].release_date = Date(2019, 12, 4)
    /\ CompleteData(input[1])
    /\ result.l = <<>>

----------------------------------------------------------------------------
(* Properties of single comparisons (SpecSort).                            *)

\* Two periods of the input with the same admission date, which is set.
SameAdmission(i, j) ==
    /\ i # j
    /\ input[i].admission_date # NullDate
    /\ input[i].admission_date = input[j].admission_date

\* Period i is in custody and period j is not.
OnlyFirstInCustody(i, j) ==
    input[i].status = IN_CUSTODY /\ input[j].status # IN_CUSTODY

\* C22: among two periods with the same admission_date that do not both
\* have a release_date, the one in custody sorts after the one not in
\* custody.
C22_CustodyStatusOrders ==
    Compared =>
        \A i, j \in 1..Len(input) :
            ( /\ SameAdmission(i, j)
              /\ input[i].release_date = NullDate \/ input[j].release_date = NullDate
              /\ OnlyFirstInCustody(i, j) )
                => result.cmp[i][j] > 0 /\ result.cmp[j][i] < 0

\* C22, amended: among two periods with the same admission_date that both
\* have no release_date, the one in custody sorts after the one not in
\* custody; an in-custody period with no release_date sorts after a
\* not-in-custody period with the same admission_date and a release_date
\* exactly when that release_date is the admission_date.
C22_CustodyStatusOrdersOpenPeriods ==
    Compared =>
        \A i, j \in 1..Len(input) :
            (SameAdmission(i, j) /\ OnlyFirstInCustody(i, j)
                /\ input[i].release_date = NullDate)
                => /\ input[j].release_date = NullDate
                        => result.cmp[i][j] > 0 /\ result.cmp[j][i] < 0
                   /\ input[j].release_date # NullDate
                        => /\ result.cmp[i][j] > 0
                                <=> input[j].release_date = input[j].admission_date
                           /\ result.cmp[j][i] = -result.cmp[i][j]

\* Two open periods of one admission day, the first of the input in
\* custody and the second not: the first compares greater.
C22_Witness ==
    /\ Compared
    /\ SameAdmission(1, 2)
    /\ OnlyFirstInCustody(1, 2)
    /\ input[1].release_date = NullDate
    /\ input[2].release_date = NullDate
    /\ result.cmp[1][2] > 0

C24_AdmissionBeforeRelease ==
    Compared =>
        \A i, j \in 1..Len(input) :
            ( /\ input[i].admission_date # NullDate
              /\ input[j].admission_date = NullDate
              /\ input[j].release_date = input[i].admission_date )
                => result.cmp[i][j] < 0 /\ result.cmp[j][i] > 0

----------------------------------------------------------------------------
(* Properties of the inference alone (SpecStages).                         *)

\* The periods in the order inference walks them in.
SortedInput == _sort_ips_by_set_dates_and_statuses(input).l

Inferred == pc = "inferred" /\ ~result.err

ReleaseDateFrom(next_ip) ==
    IF next_ip.admission_date # NullDate
    THEN next_ip.admission_date
    ELSE next_ip.release_date

ReleaseReasonFrom(next_ip) ==
    IF next_ip.admission_reason = "TRANSFER" THEN "TRANSFER" ELSE "INTERNAL_UNKNOWN"

\* The last period, not in custody and without a release date, is closed
\* on its admission date for the reason INTERNAL_UNKNOWN.
LastPeriodClosed ==
    LET n == Len(SortedInput) IN
    (/\ n > 0
     /\ SortedInput[n].release_date = NullDate
     /\ SortedInput[n].status # IN_CUSTODY) =>
        /\ result.l[n].release_date = SortedInput[n].admission_date
        /\ result.l[n].release_reason = "INTERNAL_UNKNOWN"

\* C25: a period that is not last in sorted order and has no release_date
\* gets the next period's admission_date (its release_date when that is
\* null) as release_date, the release_reason TRANSFER if the next period's
\* admission_reason is TRANSFER and INTERNAL_UNKNOWN otherwise, and the
\* status NOT_IN_CUSTODY; a last period with no release_date and not in
\* custody gets release_date = admission_date and INTERNAL_UNKNOWN.
C25_ReleaseInferred ==
    Inferred =>
        /\ \A k \in 1..(Len(SortedInput) - 1) :
                SortedInput[k].release_date = NullDate =>
                    /\ result.l[k].release_date = ReleaseDateFrom(SortedInput[k + 1])
                    /\ result.l[k].release_reason = ReleaseReasonFrom(SortedInput[k + 1])
                    /\ result.l[k].status = NOT_IN_CUSTODY
        /\ LastPeriodClosed

\* C25, amended: as C25, but the release_reason is inferred only for a
\* period that has none; a period with a release_reason and no
\* release_date keeps its release_reason.
C25_ReleaseInferredKeepingReason ==
    Inferred =>
        /\ \A k \in 1..(Len(SortedInput) - 1) :
                SortedInput[k].release_date = NullDate =>
                    /\ result.l[k].release_date = ReleaseDateFrom(SortedInput[k + 1])
                    /\ result.l[k].release_reason =
                            IF SortedInput[k].release_reason # None
                            THEN SortedInput[k].release_reason
                            ELSE ReleaseReasonFrom(SortedInput[k + 1])
                    /\ result.l[k].status = NOT_IN_CUSTODY
        /\ LastPeriodClosed

\* An open period in custody followed by a last period admitted later by
\* transfer, not in custody and with no release date.
C25_Witness ==
    /\ Inferred
    /\ Len(SortedInput) = 2
    /\ SortedInput[1].release_date = NullDate
    /\ SortedInput[1].release_reason = None
    /\ SortedInput[1].status = IN_CUSTODY
    /\ SortedInput[2].admission_reason = "TRANSFER"
    /\ SortedInput[2].admission_date > SortedInput[1].admission_date
    /\ SortedInput[2].release_date = NullDate
    /\ SortedInput[2].status = NOT_IN_CUSTODY
    /\ result.l[1].release_date = SortedInput[2].admission_date
    /\ result.l[1].release_reason = "TRANSFER"
    /\ result.l[1].status = NOT_IN_CUSTODY
    /\ result.l[2].release_date = SortedInput[2].admission_date
    /\ result.l[2].release_reason = "INTERNAL_UNKNOWN"

AdmissionReasonFrom(previous_ip) ==
    IF previous_ip.release_reason = "TRANSFER" THEN "TRANSFER" ELSE "INTERNAL_UNKNOWN"

NoNullAdmission ==
    (\A j \in 1..Len(input) : ~NoDates(input[j])) =>
        \A k \in 1..Len(result.l) : result.l[k].admission_date # NullDate

\* C26: a period that is not first in sorted order and has no
\* admission_date gets the previous period's release_date, as inference
\* left it, as admission_date, and the admission_reason TRANSFER if the
\* previous period's release_reason is TRANSFER and INTERNAL_UNKNOWN
\* otherwise; afterwards no period has a null admission_date, if every
\* period had at least one date.
C26_AdmissionInferred ==
    Inferred =>
        /\ \A k \in 2..Len(SortedInput) :
                SortedInput[k].admission_date = NullDate =>
                    /\ result.l[k].admission_date = result.l[k - 1].release_date
                    /\ result.l[k].admission_reason = AdmissionReasonFrom(result.l[k - 1])
        /\ NoNullAdmission

\* C26, amended: as C26, but the admission_reason is inferred only for a
\* period that has none; a period with an admission_reason and no
\* admission_date keeps its admission_reason.
C26_AdmissionInferredKeepingReason ==
    Inferred =>
        /\ \A k \in 2..Len(SortedInput) :
                SortedInput[k].admission_date = NullDate =>
                    /\ result.l[k].admission_date = result.l[k - 1].release_date
                    /\ result.l[k].admission_reason =
                            IF SortedInput[k].admission_reason # None
                            THEN SortedInput[k].admission_reason
                            ELSE AdmissionReasonFrom(result.l[k - 1])
        /\ NoNullAdmission

\* A period with no admission date after a period with no release date:
\* the first is closed on the release date of the second, and the second
\* is admitted on that day.
C26_Witness ==
    /\ Inferred
    /\ Len(SortedInput) = 2
    /\ SortedInput[1].release_date = NullDate
    /\ SortedInput[2].admission_date = NullDate
    /\ SortedInput[2].admission_reason = None
    /\ result.l[1].release_date = SortedInput[2].release_date
    /\ result.l[2].admission_date = SortedInput[2].release_date
    /\ result.l[2].admission_reason = "INTERNAL_UNKNOWN"

----------------------------------------------------------------------------
(* Properties of combine_incarceration_periods (SpecCollapse).             *)

\* C27: combine_incarceration_periods(start, end, overwrite) returns a new
\* period with the identity, the admission_date and the admission_reason
\* and raw text of start (of end for the last two, if overwrite is set)
\* and with the status, release_date, release_reason and raw text,
\* facility, housing unit, security level and raw text and projected
\* release reason and raw text of end; start and end are as they were.
C27_CombineFrame ==
    pc = "combined" =>
        LET start == input[1]
            end == input[2]
            new == result.l[1]
            from == IF result.overwrite_admission_reason THEN end ELSE start
        IN  /\ new.ref = 0
            /\ new.external_id = start.external_id
            /\ new.incarceration_type = start.incarceration_type
            /\ new.admission_date = start.admission_date
            /\ new.admission_reason = from.admission_reason
            /\ new.admission_reason_raw_text = from.admission_reason_raw_text
            /\ new.status = end.status
            /\ new.release_date = end.release_date
            /\ new.release_reason = end.release_reason
            /\ new.release_reason_raw_text = end.release_reason_raw_text
            /\ new.facility = end.facility
            /\ new.housing_unit = end.housing_unit
            /\ new.facility_security_level = end.facility_security_level
            /\ new.facility_security_level_raw_text =
                    end.facility_security_level_raw_text
            /\ new.projected_release_reason = end.projected_release_reason
            /\ new.projected_release_reason_raw_text =
                    end.projected_release_reason_raw_text
            /\ objs = WithRefs(input)

\* Two periods that differ in every field the call reads, combined with
\* the admission reason of the second.
C27_Witness ==
    /\ pc = "combined"
    /\ result.overwrite_admission_reason
    /\ input[1].admission_date # input[2].admission_date
    /\ input[1].admission_reason # input[2].admission_reason
    /\ input[1].release_date # input[2].release_date
    /\ input[1].release_reason # input[2].release_reason
    /\ input[1].housing_unit # input[2].housing_unit
    /\ input[1].facility_security_level # input[2].facility_security_level
    /\ input[1].projected_release_reason # input[2].projected_release_reason
    /\ result.l[1].admission_date = input[1].admission_date
    /\ result.l[1].admission_reason = input[2].admission_reason
    /\ result.l[1].housing_unit = input[2].housing_unit
    /\ objs = WithRefs(input)

\* Period i of the input is admitted by transfer and the period before it
\* was released by transfer.
TransferPair(i) ==
    /\ i > 1
    /\ input[i - 1].release_reason = "TRANSFER"
    /\ input[i].admission_reason = "TRANSFER"

\* The number of input periods that make up the first k output periods.
RECURSIVE ConstituentsUpTo(_)
ConstituentsUpTo(k) ==
    IF k = 0 THEN 0 ELSE ConstituentsUpTo(k - 1) + Len(Members(result.l[k]))

\* The constituents of the output, in order.
RECURSIVE Constituents(_)
Constituents(k) ==
    IF k = 0 THEN <<>> ELSE Constituents(k - 1) \o Members(result.l[k])

\* The positions in the input of the periods that start an output period.
OutputStarts == {ConstituentsUpTo(k - 1) + 1 : k \in 1..Len(result.l)}

\* C30: collapse_incarceration_period_transfers merges an input period
\* into its predecessor exactly when the period before it in the input was
\* released by transfer and the period itself was admitted by transfer,
\* whatever the dates; the output is shorter than the input by the number
\* of such pairs, and the constituents of the output periods, in order,
\* are the input periods, each once.
C30_TransferPairsMerged ==
    pc = "transfers_collapsed" =>
        /\ \A i \in 1..Len(input) : i \in OutputStarts <=> ~TransferPair(i)
        /\ Len(result.l) =
                Len(input) - Cardinality({i \in 1..Len(input) : TransferPair(i)})
        /\ Constituents(Len(result.l)) =
                [i \in 1..Len(input) |->
                    [external_id |-> input[i].external_id,
                     admission_date |-> input[i].admission_date]]

\* Two periods a transfer connects, a day apart, and a third admitted by
\* transfer after a release that was none: two periods come back.
C30_Witness ==
    /\ pc = "transfers_collapsed"
    /\ Len(input) = 3
    /\ TransferPair(2)
    /\ input[1].release_date < input[2].admission_date
    /\ input[2].release_reason # "TRANSFER"
    /\ input[3].admission_reason = "TRANSFER"
    /\ Len(result.l) = 2
    /\ Len(Members(result.l[1])) = 2
    /\ Plain(result.l[2]) = Plain(input[3])

----------------------------------------------------------------------------
(* Properties of the whole pipeline, continued (Spec).                     *)

\* The periods of the call that the authority filter does not drop.
InScope ==
    drop_periods_not_under_state_custodial_authority(PlainList(input),
                                                     params.state_code)

\* C28: the periods the authority filter drops have no influence on the
\* others: the output of the pipeline is its output on the input without
\* the periods out of scope.
C28_DroppedPeriodsHaveNoInfluence ==
    pc = "done" =>
        LET alone == prepare_incarceration_periods_for_calculations(InScope, params)
        IN  /\ ~alone.err
            /\ PlainList(alone.l) = PlainList(ips)

\* No period of the call that has both dates ends before it starts.
InputDatesOrdered ==
    \A i \in 1..Len(input) :
        (input[i].admission_date # NullDate /\ input[i].release_date # NullDate)
            => input[i].admission_date <= input[i].release_date

\* C29: if no period of the input that has both dates ends before it
\* starts, no period of the output that has a release_date does.
C29_NoPeriodEndsBeforeItStarts ==
    (pc = "done" /\ InputDatesOrdered) =>
        \A k \in 1..Len(ips) :
            ips[k].release_date # NullDate
                => ips[k].admission_date <= ips[k].release_date

====
